---- MODULE Spec2Model ----
(***************************************************************************)
(* Expense tracker bot (src/main.py): the row store (one worksheet), the   *)
(* category registry kept in column 5 of that worksheet, the expense       *)
(* append and the spending summary.                                        *)
(*                                                                         *)
(* Strings are sequences of one-character strings, so that split, strip,   *)
(* lower, join, float() and strftime/strptime are computed and not         *)
(* assumed.  Prices are counted in hundredths (cents).                     *)
(***************************************************************************)
EXTENDS Integers, Sequences, FiniteSets, TLC

VARIABLES sheet, divider_symbol, current_category, today, last, tasks

vars == <<sheet, divider_symbol, current_category, today, last, tasks>>

(***************************************************************************)
(* Bounds of the model.                                                    *)
(***************************************************************************)
MaxRows == 2
MaxTicks == 1

(***************************************************************************)
(* Python str operations.                                                  *)
(***************************************************************************)
Empty == <<>>

\* None, as a value that is no string of characters
None == <<"<None>">>

LowerChar(c) ==
    CASE c = "A" -> "a"
      [] c = "B" -> "b"
      [] c = "C" -> "c"
      [] c = "T" -> "t"
      [] OTHER -> c

\* str.lower()
ToLower(s) == [i \in 1..Len(s) |-> LowerChar(s[i])]

RECURSIVE LStrip(_)
LStrip(s) == IF s # <<>> /\ Head(s) = " " THEN LStrip(Tail(s)) ELSE s

RECURSIVE RStrip(_)
RStrip(s) ==
    IF s # <<>> /\ s[Len(s)] = " " THEN RStrip(SubSeq(s, 1, Len(s) - 1)) ELSE s

\* str.strip()
Strip(s) == RStrip(LStrip(s))

\* the first position at which sep occurs in s, 0 when it does not
FindSep(s, sep) ==
    LET hits == {i \in 1..(Len(s) - Len(sep) + 1) : SubSeq(s, i, i + Len(sep) - 1) = sep}
    IN  IF hits = {} THEN 0 ELSE CHOOSE i \in hits : \A j \in hits : i <= j

\* str.split(sep), sep not empty
RECURSIVE Split(_, _)
Split(s, sep) ==
    LET i == FindSep(s, sep)
    IN  IF i = 0 THEN <<s>>
        ELSE <<SubSeq(s, 1, i - 1)>> \o Split(SubSeq(s, i + Len(sep), Len(s)), sep)

\* sep.join(parts)
RECURSIVE Join(_, _)
Join(parts, sep) ==
    IF parts = <<>> THEN <<>>
    ELSE IF Len(parts) = 1 THEN parts[1]
    ELSE parts[1] \o sep \o Join(Tail(parts), sep)

Comma == <<",">>
CommaSpace == <<",", " ">>
Space == <<" ">>

\* [cat.strip() for cat in cell_value.split(',')]
CategoriesInCell(cell) ==
    LET parts == Split(cell, Comma) IN [i \in 1..Len(parts) |-> Strip(parts[i])]

Range(f) == {f[i] : i \in DOMAIN f}

(***************************************************************************)
(* Numbers: float(), the cell text of a number, and the :.2f format.       *)
(* A price is an integer count of hundredths; the messages of the model    *)
(* carry at most two fractional digits.                                    *)
(***************************************************************************)
Digits == <<"0", "1", "2", "3", "4", "5", "6", "7", "8", "9">>

IsDigit(c) == \E k \in 1..10 : Digits[k] = c

DigitVal(c) == (CHOOSE k \in 1..10 : Digits[k] = c) - 1

IsDigits(s) == \A i \in 1..Len(s) : IsDigit(s[i])

RECURSIVE NatVal(_)
NatVal(s) == IF s = <<>> THEN 0 ELSE 10 * NatVal(SubSeq(s, 1, Len(s) - 1)) + DigitVal(s[Len(s)])

RECURSIVE NatStr(_)
NatStr(n) == IF n < 10 THEN <<Digits[n + 1]>> ELSE NatStr(n \div 10) \o <<Digits[(n % 10) + 1]>>

Pad2(n) == IF n < 10 THEN <<"0">> \o NatStr(n) ELSE NatStr(n)

Abs(n) == IF n < 0 THEN -n ELSE n

\* the hundredths written by up to two fractional digits
FracVal(f) ==
    IF f = <<>> THEN 0
    ELSE IF Len(f) = 1 THEN 10 * DigitVal(f[1])
    ELSE 10 * DigitVal(f[1]) + DigitVal(f[2])

\* float(s) for decimal literals: [ok |-> FALSE] is ValueError
ParseUnsigned(s) ==
    LET parts == Split(s, <<".">>)
    IN  IF Len(parts) = 1
        THEN IF s # <<>> /\ IsDigits(s)
             THEN [ok |-> TRUE, val |-> 100 * NatVal(s)]
             ELSE [ok |-> FALSE, val |-> 0]
        ELSE IF Len(parts) = 2 /\ IsDigits(parts[1]) /\ IsDigits(parts[2])
                /\ (parts[1] # <<>> \/ parts[2] # <<>>)
             THEN [ok |-> TRUE, val |-> 100 * NatVal(parts[1]) + FracVal(parts[2])]
             ELSE [ok |-> FALSE, val |-> 0]

ParseFloat(str) ==
    LET s == Strip(str)
    IN  IF s # <<>> /\ Head(s) = "-"
        THEN LET r == ParseUnsigned(Tail(s)) IN [ok |-> r.ok, val |-> 0 - r.val]
        ELSE IF s # <<>> /\ Head(s) = "+"
        THEN ParseUnsigned(Tail(s))
        ELSE ParseUnsigned(s)

\* f"{price:.2f}"
Format2f(cents) ==
    (IF cents < 0 THEN <<"-">> ELSE <<>>)
        \o NatStr(Abs(cents) \div 100) \o <<".">> \o Pad2(Abs(cents) % 100)

\* the text get_all_values returns for a cell that holds the number written
\* by insert_row: the shortest decimal
CellOfFloat(cents) ==
    LET a == Abs(cents)
        sign == IF cents < 0 THEN <<"-">> ELSE <<>>
    IN  IF a % 100 = 0 THEN sign \o NatStr(a \div 100)
        ELSE IF a % 10 = 0 THEN sign \o NatStr(a \div 100) \o <<".">> \o NatStr((a % 100) \div 10)
        ELSE sign \o NatStr(a \div 100) \o <<".">> \o Pad2(a % 100)

(***************************************************************************)
(* Dates: datetime.date as [y, m, d], strftime and strptime of %Y-%m-%d.   *)
(***************************************************************************)
IsLeap(y) == (y % 4 = 0 /\ y % 100 # 0) \/ y % 400 = 0

DaysInMonth(y, m) ==
    IF m = 2 THEN (IF IsLeap(y) THEN 29 ELSE 28)
    ELSE IF m \in {4, 6, 9, 11} THEN 30 ELSE 31

RECURSIVE DaysBeforeMonth(_, _)
DaysBeforeMonth(y, m) == IF m = 1 THEN 0 ELSE DaysBeforeMonth(y, m - 1) + DaysInMonth(y, m - 1)

\* date.toordinal()
ToOrdinal(dt) ==
    LET p == dt.y - 1
    IN  p * 365 + (p \div 4) - (p \div 100) + (p \div 400) + DaysBeforeMonth(dt.y, dt.m) + dt.d

\* date.weekday(), Monday is 0
Weekday(dt) == (ToOrdinal(dt) + 6) % 7

NextDay(dt) ==
    IF dt.d < DaysInMonth(dt.y, dt.m) THEN [dt EXCEPT !.d = dt.d + 1]
    ELSE IF dt.m < 12 THEN [y |-> dt.y, m |-> dt.m + 1, d |-> 1]
    ELSE [y |-> dt.y + 1, m |-> 1, d |-> 1]

\* strftime("%Y-%m-%d"), years of four digits
FormatDate(dt) == NatStr(dt.y) \o <<"-">> \o Pad2(dt.m) \o <<"-">> \o Pad2(dt.d)

\* strptime(s, "%Y-%m-%d").date(): [ok |-> FALSE] is ValueError
ParseDate(s) ==
    LET parts == Split(s, <<"-">>)
        bad == [ok |-> FALSE, date |-> [y |-> 0, m |-> 0, d |-> 0]]
    IN  IF Len(parts) # 3 THEN bad
        ELSE IF ~(IsDigits(parts[1]) /\ IsDigits(parts[2]) /\ IsDigits(parts[3])) THEN bad
        ELSE IF ~(Len(parts[1]) = 4 /\ Len(parts[2]) \in {1, 2} /\ Len(parts[3]) \in {1, 2}) THEN bad
        ELSE LET y == NatVal(parts[1])
                 m == NatVal(parts[2])
                 d == NatVal(parts[3])
             IN  IF y >= 1 /\ m \in 1..12 /\ d >= 1 /\ d <= DaysInMonth(y, m)
                 THEN [ok |-> TRUE, date |-> [y |-> y, m |-> m, d |-> d]]
                 ELSE bad

\* now.strftime("%H:%M:%S"): the clock of the model counts days only
TimeText == <<"1", "2", ":", "0", "0", ":", "0", "0">>

(***************************************************************************)
(* The worksheet.  sheet is the sequence of its rows down to the last row  *)
(* that holds a value; a row is its first five cells, an empty cell is the *)
(* empty string.  The gspread calls follow the library's documented        *)
(* behaviour: col_values stops at the last non-empty cell of the column,   *)
(* get_all_values pads every row to the longest row, insert_row moves the  *)
(* rows from the index on down by one, a float is shown as the shortest    *)
(* decimal and None as an empty cell.                                      *)
(***************************************************************************)
NCols == 5

BlankRow == [c \in 1..NCols |-> Empty]

RECURSIVE TrimRows(_)
TrimRows(rows) ==
    IF rows # <<>> /\ rows[Len(rows)] = BlankRow
    THEN TrimRows(SubSeq(rows, 1, Len(rows) - 1))
    ELSE rows

\* sheet.col_values(n): the column down to its last non-empty cell
ColValues(sh, n) ==
    LET used == {i \in 1..Len(sh) : sh[i][n] # Empty}
        lastUsed == IF used = {} THEN 0 ELSE CHOOSE i \in used : \A j \in used : j <= i
    IN  [i \in 1..lastUsed |-> sh[i][n]]

\* sheet.get_all_values(): every row, padded to the longest row of the sheet
GetAllValues(sh) ==
    LET usedCols == {c \in 1..NCols : \E i \in 1..Len(sh) : sh[i][c] # Empty}
        width == IF usedCols = {} THEN 0 ELSE CHOOSE c \in usedCols : \A e \in usedCols : e <= c
    IN  [i \in 1..Len(sh) |-> SubSeq(sh[i], 1, width)]

\* sheet.insert_row(values, index): the rows from index on move down by one
InsertRow(sh, values, index) ==
    TrimRows(SubSeq(sh, 1, index - 1) \o <<values>> \o SubSeq(sh, index, Len(sh)))

\* sheet.update_cell(row, col, value)
UpdateCell(sh, row, col, value) ==
    LET grown == IF row <= Len(sh) THEN sh
                 ELSE sh \o [i \in 1..(row - Len(sh)) |-> BlankRow]
    IN  TrimRows([grown EXCEPT ![row][col] = value])

\* len(list(filter(None, column)))
CountNonEmpty(column) == Cardinality({i \in 1..Len(column) : column[i] # Empty})

\* write_to_sheet(item, price, category)
WriteToSheet(sh, now, item, price, category) ==
    LET next_row == CountNonEmpty(ColValues(sh, 1)) + 1
        row_values == <<FormatDate(now), TimeText, item, CellOfFloat(price),
                        IF category = None THEN Empty ELSE category>>
    IN  InsertRow(sh, row_values, next_row)

(***************************************************************************)
(* get_spending_summary                                                    *)
(***************************************************************************)
\* CategoryMatches looking at the first token of the field only
CategoryMatchesFirstToken(category, row_category) ==
    \/ category = None
    \/ category = Empty
    \/ ToLower(Strip(Split(row_category, Comma)[1])) = ToLower(category)

\* the category test of the loop: TRUE when the row passes
CategoryMatches(category, row_category) ==
    \/ category = None
    \/ category = Empty
    \/ LET cats == Split(row_category, Comma)
       IN  \E i \in 1..Len(cats) : ToLower(Strip(cats[i])) = ToLower(category)

\* InPeriod with the week not ended at today
InPeriodWholeWeek(period, date_obj, now) ==
    \/ period = "day" /\ date_obj = now
    \/ period = "week"
        /\ ToOrdinal(now) - Weekday(now) <= ToOrdinal(date_obj)
        /\ ToOrdinal(date_obj) < ToOrdinal(now) - Weekday(now) + 7
    \/ period = "month" /\ date_obj.y = now.y /\ date_obj.m = now.m

InPeriod(period, date_obj, now) ==
    \/ period = "day" /\ date_obj = now
    \/ period = "week"
        /\ ToOrdinal(now) - Weekday(now) <= ToOrdinal(date_obj)
        /\ ToOrdinal(date_obj) <= ToOrdinal(now)
    \/ period = "month" /\ date_obj.y = now.y /\ date_obj.m = now.m

\* one pass of the loop body: does the row add to the total and the items
RowCounts(row, period, category, now) ==
    /\ Len(row) >= 5
    /\ ParseDate(Strip(row[1])).ok
    /\ ParseFloat(Strip(row[4])).ok
    /\ CategoryMatches(category, Strip(row[5]))
    /\ InPeriod(period, ParseDate(Strip(row[1])).date, now)

\* SpendingItems with the loop left at the first row that has no date or price
RECURSIVE SpendingItemsUntilError(_, _, _, _, _)
SpendingItemsUntilError(rows, k, period, category, now) ==
    IF k > Len(rows) THEN <<>>
    ELSE IF Len(rows[k]) >= 5
            /\ ~(ParseDate(Strip(rows[k][1])).ok /\ ParseFloat(Strip(rows[k][4])).ok)
    THEN <<>>
    ELSE (IF RowCounts(rows[k], period, category, now)
          THEN <<[row |-> k + 1,
                  name |-> Strip(rows[k][3]),
                  price |-> ParseFloat(Strip(rows[k][4])).val,
                  category |-> Strip(rows[k][5]),
                  date |-> ParseDate(Strip(rows[k][1])).date]>>
          ELSE <<>>)
         \o SpendingItemsUntilError(rows, k + 1, period, category, now)

\* spending_items after the loop over rows k..Len(rows); rows[k] is sheet row k + 1
RECURSIVE SpendingItems(_, _, _, _, _)
SpendingItems(rows, k, period, category, now) ==
    IF k > Len(rows) THEN <<>>
    ELSE (IF RowCounts(rows[k], period, category, now)
          THEN <<[row |-> k + 1,
                  name |-> Strip(rows[k][3]),
                  price |-> ParseFloat(Strip(rows[k][4])).val,
                  category |-> Strip(rows[k][5]),
                  date |-> ParseDate(Strip(rows[k][1])).date]>>
          ELSE <<>>)
         \o SpendingItems(rows, k + 1, period, category, now)

RECURSIVE SumPrices(_)
SumPrices(items) == IF items = <<>> THEN 0 ELSE Head(items).price + SumPrices(Tail(items))

\* InsertDesc with x put before the items of its own price
InsertDescBeforeEqual(sorted, x) ==
    LET before == {i \in 1..Len(sorted) : sorted[i].price > x.price}
        n == Cardinality(before)
    IN  SubSeq(sorted, 1, n) \o <<x>> \o SubSeq(sorted, n + 1, Len(sorted))

\* x put behind every item whose price is not smaller
InsertDesc(sorted, x) ==
    LET before == {i \in 1..Len(sorted) : sorted[i].price >= x.price}
        n == Cardinality(before)
    IN  SubSeq(sorted, 1, n) \o <<x>> \o SubSeq(sorted, n + 1, Len(sorted))

\* spending_items.sort(key=price, reverse=True): stable
RECURSIVE SortByPrice(_)
SortByPrice(items) ==
    IF items = <<>> THEN <<>>
    ELSE InsertDesc(SortByPrice(SubSeq(items, 1, Len(items) - 1)), items[Len(items)])

\* spending_items[:top_amount] when top_amount is given and smaller; 0 is None
Truncate(items, top_amount) ==
    IF top_amount # 0 /\ top_amount < Len(items)
    THEN IF top_amount > 0 THEN SubSeq(items, 1, top_amount)
         ELSE SubSeq(items, 1, Len(items) + top_amount)
    ELSE items

NotAvailable == <<"N", "/", "A">>

DaysAgoText == <<"0", " ", "d", "a", "y", "s", " ", "a", "g", "o">>

SummaryLine(item, period, div) ==
    [row |-> item.row,
     name |-> item.name,
     category |-> IF item.category = Empty THEN NotAvailable ELSE item.category,
     price |-> item.price,
     priceText |-> Format2f(item.price) \o div,
     dateText |-> IF period = "day" THEN DaysAgoText ELSE FormatDate(item.date)]

NoReport == [kind |-> "none", lines |-> <<>>, total |-> 0, totalText |-> Empty]

GetSpendingSummary(sh, now, div, period, category, top_amount) ==
    LET raw_data == GetAllValues(sh)
    IN  IF Len(raw_data) <= 1
        THEN [NoReport EXCEPT !.kind = "no data"]
        ELSE LET spending_items == SpendingItems(Tail(raw_data), 1, period, category, now)
                 period_total == SumPrices(spending_items)
                 listed == Truncate(SortByPrice(spending_items), top_amount)
             IN  IF spending_items = <<>>
                 THEN [NoReport EXCEPT !.kind = "no spendings"]
                 ELSE [kind |-> "summary",
                       lines |-> [i \in 1..Len(listed) |-> SummaryLine(listed[i], period, div)],
                       total |-> period_total,
                       totalText |-> Format2f(period_total) \o div]

(***************************************************************************)
(* The category registry: column 5 of the worksheet.                       *)
(***************************************************************************)
CategoryCol == 5

\* CategoryExists with the comparison made case-sensitive
CategoryExistsExact(category_name, categories_col) ==
    \E i \in 1..Len(categories_col) :
        /\ categories_col[i] # Empty
        /\ LET cats == Split(categories_col[i], Comma)
           IN  \E k \in 1..Len(cats) : Strip(cats[k]) = category_name

\* line 151: is category_name, ignoring case, a token of a non-empty cell
CategoryExists(category_name, categories_col) ==
    \E i \in 1..Len(categories_col) :
        /\ categories_col[i] # Empty
        /\ LET cats == Split(categories_col[i], Comma)
           IN  \E k \in 1..Len(cats) : ToLower(Strip(cats[k])) = ToLower(category_name)

\* the row add_category writes to
CategoriesRow(sh) == CountNonEmpty(ColValues(sh, CategoryCol)) + 1

\* FirstCellWith with the membership test made case-insensitive
FirstCellWithIgnoringCase(name, categories_col) ==
    LET hits == {i \in 1..Len(categories_col) :
                    /\ categories_col[i] # Empty
                    /\ \E t \in Range(CategoriesInCell(categories_col[i])) :
                           ToLower(t) = ToLower(name)}
    IN  IF hits = {} THEN 0 ELSE CHOOSE i \in hits : \A j \in hits : i <= j

\* the index of the first cell whose token list holds name, 0 when none does
FirstCellWith(name, categories_col) ==
    LET hits == {i \in 1..Len(categories_col) :
                    /\ categories_col[i] # Empty
                    /\ name \in Range(CategoriesInCell(categories_col[i]))}
    IN  IF hits = {} THEN 0 ELSE CHOOSE i \in hits : \A j \in hits : i <= j

\* list.remove(x): the first occurrence goes
RECURSIVE ListRemove(_, _)
ListRemove(list, x) ==
    IF list = <<>> THEN <<>>
    ELSE IF Head(list) = x THEN Tail(list)
    ELSE <<Head(list)>> \o ListRemove(Tail(list), x)

\* the cell remove_category writes back
RemovedCell(cell, category_name) ==
    Join(ListRemove(CategoriesInCell(cell), category_name), CommaSpace)

\* the cell edit_category writes back
EditedCell(cell, old_category_name, new_category_name) ==
    LET cats == CategoriesInCell(cell)
    IN  Join([k \in 1..Len(cats) |->
                 IF cats[k] = old_category_name THEN new_category_name ELSE cats[k]],
             CommaSpace)

\* category_buttons: the names offered as buttons
UniqueCategories(sh) ==
    LET col == ColValues(sh, CategoryCol)
    IN  UNION {Range(CategoriesInCell(col[i])) : i \in {j \in 1..Len(col) : col[j] # Empty}}

(***************************************************************************)
(* Inputs: the words of the commands and the texts of the messages.        *)
(***************************************************************************)
wA == <<"A">>
wa == <<"a">>
wB == <<"B">>
wC == <<"C">>
wAc == <<"A", ",">>

\* context.args of /addcat and /removecat; the names are
\* "A", "a", "A B" and "A, A, B"
ArgLists == {<<>>, <<wA>>, <<wa>>, <<wA, wB>>, <<wAc, wAc, wB>>}

\* the new name typed in /editcat
NewArgLists == {<<wC>>}

Dollar == <<"$">>
Hash == <<"#">>

\* context.args of /setdivider
DividerArgLists == {<<>>, <<Dollar>>, <<Hash>>, <<Hash \o Hash>>}

CoffeeMessage == <<"C", "o", "f", "f", "e", "e", "$", "1", "0", ".", "0">>
Coffee == <<"C", "o", "f", "f", "e", "e">>
HashMessage == <<"T", "e", "a", " ", "#", "2", ".", "5">>
BadPriceMessage == <<"T", "e", "a", "$", "x">>
TwoDividerMessage == <<"T", "$", "e", "$", "1">>

Messages == {CoffeeMessage, HashMessage, BadPriceMessage, TwoDividerMessage}

NoneText == <<"N", "o", "n", "e">>

Periods == {"day", "week", "month"}

\* the first day of the run; one day later the month has changed
StartDate == [y |-> 2024, m |-> 1, d |-> 31]

(***************************************************************************)
(* State.  sheet, divider_symbol, current_category (user_data) and today   *)
(* (the clock) are the program's; last records the last handler run and    *)
(* its reply; last.top is <<>> when no top_amount was passed and           *)
(* last.fault is the call of the worksheet that raised, 0 when none did;   *)
(* last.user_id is the sender of the update and last.buttons the names on  *)
(* the keyboard the reply carries; last.reply_fault says that the          *)
(* reply_text of the confirmation raised.                                  *)
(* tasks holds                                                             *)
(* the handler coroutines that have started and not ended, each with the   *)
(* place it has come to and the column it has read, and the coroutine that *)
(* the event loop is running (0 when the loop is free).                    *)
(***************************************************************************)
\* update.effective_user.id of the two senders, and the allow-list of
\* config.json
OwnerId == "owner"
StrangerId == "stranger"
UserIds == {OwnerId, StrangerId}
ALLOWED_USER_IDS == {OwnerId}

Tasks == {1, 2}

IdleTask == [pc |-> "idle", op |-> "none", args |-> <<>>, snap |-> <<>>, reply |-> "none"]

NoTasks == [running |-> 0, inv |-> [k \in Tasks |-> IdleTask]]

NoLast ==
    [op |-> "none", args |-> <<>>, name |-> Empty, new |-> Empty,
     category |-> None, top |-> <<>>, fault |-> 0, user_id |-> OwnerId,
     buttons |-> {}, reply_fault |-> FALSE, reply |-> "none", report |-> NoReport]

Init ==
    /\ sheet = <<>>
    /\ divider_symbol = Dollar
    /\ current_category = None
    /\ today = StartDate
    /\ last = NoLast
    /\ tasks = NoTasks

\* add_category
AddCategory(args) ==
    LET category_name == Join(args, Space)
        categories_col == ColValues(sheet, CategoryCol)
    IN  /\ UNCHANGED <<divider_symbol, current_category, today, tasks>>
        /\ IF args = <<>>
           THEN /\ last' = [NoLast EXCEPT !.op = "add", !.reply = "usage"]
                /\ UNCHANGED sheet
           ELSE IF CategoryExists(category_name, categories_col)
           THEN /\ last' = [NoLast EXCEPT !.op = "add", !.args = args,
                                          !.name = category_name, !.reply = "exists"]
                /\ UNCHANGED sheet
           ELSE /\ CategoriesRow(sheet) <= MaxRows
                /\ sheet' = UpdateCell(sheet, CategoriesRow(sheet), CategoryCol, category_name)
                /\ last' = [NoLast EXCEPT !.op = "add", !.args = args,
                                          !.name = category_name, !.reply = "added"]

\* remove_category
RemoveCategory(args) ==
    LET category_name == Join(args, Space)
        categories_col == ColValues(sheet, CategoryCol)
        i == FirstCellWith(category_name, categories_col)
    IN  /\ UNCHANGED <<divider_symbol, current_category, today, tasks>>
        /\ IF args = <<>>
           THEN /\ last' = [NoLast EXCEPT !.op = "remove", !.reply = "usage"]
                /\ UNCHANGED sheet
           ELSE IF i # 0
           THEN /\ sheet' = UpdateCell(sheet, i, CategoryCol,
                                       RemovedCell(categories_col[i], category_name))
                /\ last' = [NoLast EXCEPT !.op = "remove", !.args = args,
                                          !.name = category_name, !.reply = "removed"]
           ELSE /\ last' = [NoLast EXCEPT !.op = "remove", !.args = args,
                                          !.name = category_name, !.reply = "not found"]
                /\ UNCHANGED sheet

\* edit_category, run on "/editcat <old> <new>" where the user means the
\* category named by the words old to get the name made of the words new
EditCategory(old, new) ==
    LET args == old \o new
        old_category_name == args[1]
        new_category_name == Join(Tail(args), Space)
        categories_col == ColValues(sheet, CategoryCol)
        i == FirstCellWith(old_category_name, categories_col)
    IN  /\ UNCHANGED <<divider_symbol, current_category, today, tasks>>
        /\ IF Len(args) < 2
           THEN /\ last' = [NoLast EXCEPT !.op = "edit", !.args = args, !.reply = "usage"]
                /\ UNCHANGED sheet
           ELSE LET done == [NoLast EXCEPT !.op = "edit", !.args = args,
                                           !.name = old_category_name,
                                           !.new = new_category_name]
                IN  IF i # 0
                    THEN /\ sheet' = UpdateCell(sheet, i, CategoryCol,
                                        EditedCell(categories_col[i], old_category_name,
                                                   new_category_name))
                         /\ last' = [done EXCEPT !.reply = "updated"]
                    ELSE /\ last' = [done EXCEPT !.reply = "not found"]
                         /\ UNCHANGED sheet

\* SetDividerCommand with no test of the length
SetDividerCommandAnyLength(args) ==
    /\ UNCHANGED <<sheet, current_category, today, tasks>>
    /\ IF args # <<>>
       THEN /\ divider_symbol' = args[1]
            /\ last' = [NoLast EXCEPT !.op = "setdivider", !.args = args, !.reply = "set"]
       ELSE /\ last' = [NoLast EXCEPT !.op = "setdivider", !.reply = "usage"]
            /\ UNCHANGED divider_symbol

\* set_divider_command
SetDividerCommand(args) ==
    /\ UNCHANGED <<sheet, current_category, today, tasks>>
    /\ IF args # <<>>
       THEN LET new_divider == args[1]
            IN  IF Len(new_divider) = 1
                THEN /\ divider_symbol' = new_divider
                     /\ last' = [NoLast EXCEPT !.op = "setdivider", !.args = args, !.reply = "set"]
                ELSE /\ last' = [NoLast EXCEPT !.op = "setdivider", !.args = args,
                                               !.reply = "single character"]
                     /\ UNCHANGED divider_symbol
       ELSE /\ last' = [NoLast EXCEPT !.op = "setdivider", !.reply = "usage"]
            /\ UNCHANGED divider_symbol

\* day_spending_command, week_spending_command, month_spending_command
SpendingCommand(period, args) ==
    LET category == IF args # <<>> THEN Join(args, Space) ELSE None
    IN  /\ UNCHANGED <<sheet, divider_symbol, current_category, today, tasks>>
        /\ last' = [NoLast EXCEPT !.op = period, !.args = args, !.category = category,
                        !.reply = "report",
                        !.report = GetSpendingSummary(sheet, today, divider_symbol,
                                                      period, category, 0)]

\* get_spending_summary(period, top_amount=top_amount), called on its own
GetSpendingSummaryTop(period, top_amount) ==
    /\ UNCHANGED <<sheet, divider_symbol, current_category, today, tasks>>
    /\ last' = [NoLast EXCEPT !.op = period, !.top = <<top_amount>>, !.reply = "report",
                    !.report = GetSpendingSummary(sheet, today, divider_symbol,
                                                  period, None, top_amount)]

\* set_category_callback on a button of category_buttons
SetCategoryCallback(category_name) ==
    /\ UNCHANGED <<sheet, divider_symbol, today, tasks>>
    /\ current_category' = IF category_name # NoneText THEN category_name ELSE None
    /\ last' = [NoLast EXCEPT !.op = "select", !.name = category_name, !.reply = "selected"]

\* track_expense
TrackExpense(message_text) ==
    LET category == current_category
        parts == Split(message_text, divider_symbol)
        rejected == [NoLast EXCEPT !.op = "track", !.name = message_text,
                                   !.category = category, !.reply = "incorrect format"]
    IN  /\ UNCHANGED <<divider_symbol, today, tasks>>
        /\ IF Len(parts) # 2
           THEN /\ last' = rejected
                /\ UNCHANGED <<sheet, current_category>>
           ELSE LET item == Strip(parts[1])
                    price == ParseFloat(Strip(parts[2]))
                IN  IF ~price.ok
                    THEN /\ last' = rejected
                         /\ UNCHANGED <<sheet, current_category>>
                    ELSE /\ Len(sheet) < MaxRows
                         /\ sheet' = WriteToSheet(sheet, today, item, price.val, category)
                         /\ current_category' = None
                         /\ last' = [rejected EXCEPT !.new = item, !.reply = "tracked"]

\* the date changes
Tick ==
    /\ ToOrdinal(today) - ToOrdinal(StartDate) < MaxTicks
    /\ today' = NextDay(today)
    /\ UNCHANGED <<sheet, divider_symbol, current_category, last, tasks>>

\* the buttons a user presses: "No Category" and the buttons of the names in which
ButtonsOf(sh, which) == ((UniqueCategories(sh) \ {Empty}) \cap which) \cup {NoneText}

(***************************************************************************)
(* Spec: every handler, on the short commands.                             *)
(***************************************************************************)
Next ==
    \/ \E args \in {<<>>, <<wA>>, <<wa>>} : AddCategory(args)
    \/ \E args \in {<<>>, <<wA>>} : RemoveCategory(args)
    \/ \E old \in {<<>>, <<wA>>} : EditCategory(old, <<wC>>)
    \/ \E args \in DividerArgLists : SetDividerCommand(args)
    \/ \E period \in Periods : SpendingCommand(period, <<>>)
    \/ SpendingCommand("day", <<wa>>)
    \/ \E name \in ButtonsOf(sheet, {wA}) : SetCategoryCallback(name)
    \/ \E text \in Messages : TrackExpense(text)
    \/ Tick

Spec == Init /\ [][Next]_vars

(***************************************************************************)
(* SpecRegistry: the handlers that write the worksheet, on every name of   *)
(* ArgLists.  The divider, the date and the reports do not reach column 5. *)
(***************************************************************************)
NextRegistry ==
    \/ \E args \in ArgLists : AddCategory(args)
    \/ \E args \in ArgLists : RemoveCategory(args)
    \/ \E old \in ArgLists : EditCategory(old, <<wC>>)
    \/ TrackExpense(CoffeeMessage)

SpecRegistry == Init /\ [][NextRegistry]_vars

(***************************************************************************)
(* SpecChat: the updates of a sender of the allow-list and of a sender     *)
(* outside it.  handler is the handler run of a sender who is let in.      *)
(***************************************************************************)
\* the wrapper of @authorized_user around a handler
authorized_user(user_id, op, handler) ==
    IF user_id \notin ALLOWED_USER_IDS
    THEN /\ last' = [NoLast EXCEPT !.op = op, !.user_id = user_id,
                                    !.reply = "unauthorized"]
         /\ UNCHANGED <<sheet, divider_symbol, current_category, today, tasks>>
    ELSE handler

\* category_buttons, the handler of /categories: it has no wrapper
category_buttons(user_id) ==
    /\ last' = [NoLast EXCEPT !.op = "categories", !.user_id = user_id,
                              !.buttons = UniqueCategories(sheet), !.reply = "choose"]
    /\ UNCHANGED <<sheet, divider_symbol, current_category, today, tasks>>

NextChat ==
    \/ \E user_id \in UserIds :
           authorized_user(user_id, "setdivider",
                           \E args \in DividerArgLists : SetDividerCommand(args))
    \/ \E user_id \in UserIds :
           authorized_user(user_id, "add", \E args \in {<<wA>>, <<wB>>} : AddCategory(args))
    \/ \E user_id \in UserIds :
           authorized_user(user_id, "track", \E text \in Messages : TrackExpense(text))
    \/ \E user_id \in UserIds : category_buttons(user_id)
    \/ \E name \in ButtonsOf(sheet, {wA}) : SetCategoryCallback(name)

SpecChat == Init /\ [][NextChat]_vars

(***************************************************************************)
(* SpecFaults: the handlers when a call of the worksheet raises (the       *)
(* transport fails, the quota is used up).  call numbers the calls of the  *)
(* handler in the order of its lines; a worksheet call that raises has     *)
(* written nothing.                                                        *)
(***************************************************************************)
\* error with the reply left out
ErrorLogsOnly(has_message) == "none"

\* error, the handler of the exceptions that leave a handler: lines 360-365
error(has_message) == IF has_message THEN "an error occurred" ELSE "none"

\* get_all_values raises inside a spending command: lines 80-84
SpendingCommandFault(period, args) ==
    /\ UNCHANGED <<sheet, divider_symbol, current_category, today, tasks>>
    /\ last' = [NoLast EXCEPT !.op = period, !.args = args,
                    !.category = IF args # <<>> THEN Join(args, Space) ELSE None,
                    !.fault = 1, !.reply = "report",
                    !.report = [NoReport EXCEPT !.kind = "error fetching data"]]

\* col_values (call 1) or insert_row (call 2) raises inside write_to_sheet:
\* lines 336-338
TrackExpenseFault(message_text, call) ==
    LET parts == Split(message_text, divider_symbol)
    IN  /\ call \in 1..2
        /\ Len(parts) = 2
        /\ ParseFloat(Strip(parts[2])).ok
        /\ UNCHANGED <<sheet, divider_symbol, current_category, today, tasks>>
        /\ last' = [NoLast EXCEPT !.op = "track", !.name = message_text,
                        !.category = current_category, !.new = Strip(parts[1]),
                        !.fault = call, !.reply = "error, try again"]

\* line 150 (call 1), line 155 (call 2) or line 156 (call 3) raises inside
\* add_category; the exception leaves the handler
AddCategoryFault(args, call) ==
    /\ args # <<>>
    /\ call \in 1..3
    /\ call > 1 => ~CategoryExists(Join(args, Space), ColValues(sheet, CategoryCol))
    /\ UNCHANGED <<sheet, divider_symbol, current_category, today, tasks>>
    /\ last' = [NoLast EXCEPT !.op = "add", !.args = args, !.name = Join(args, Space),
                    !.fault = call, !.reply = error(TRUE)]

\* line 165 (call 1) or line 173 (call 2) raises inside remove_category
RemoveCategoryFault(args, call) ==
    /\ args # <<>>
    /\ call \in 1..2
    /\ call > 1 => FirstCellWith(Join(args, Space), ColValues(sheet, CategoryCol)) # 0
    /\ UNCHANGED <<sheet, divider_symbol, current_category, today, tasks>>
    /\ last' = [NoLast EXCEPT !.op = "remove", !.args = args, !.name = Join(args, Space),
                    !.fault = call, !.reply = error(TRUE)]

\* line 189 (call 1) or line 197 (call 2) raises inside edit_category
EditCategoryFault(old, new, call) ==
    LET args == old \o new
    IN  /\ Len(args) >= 2
        /\ call \in 1..2
        /\ call > 1 => FirstCellWith(args[1], ColValues(sheet, CategoryCol)) # 0
        /\ UNCHANGED <<sheet, divider_symbol, current_category, today, tasks>>
        /\ last' = [NoLast EXCEPT !.op = "edit", !.args = args, !.name = args[1],
                        !.new = Join(Tail(args), Space),
                        !.fault = call, !.reply = error(TRUE)]

NextFaults ==
    \/ \E args \in {<<wA>>, <<wa>>} : AddCategory(args)
    \/ RemoveCategory(<<wA>>)
    \/ EditCategory(<<wA>>, <<wC>>)
    \/ \E text \in {CoffeeMessage, BadPriceMessage} : TrackExpense(text)
    \/ \E period \in Periods : SpendingCommand(period, <<>>)
    \/ \E period \in Periods : SpendingCommandFault(period, <<>>)
    \/ \E text \in {CoffeeMessage, BadPriceMessage}, call \in 1..2 :
           TrackExpenseFault(text, call)
    \/ \E args \in {<<wA>>, <<wa>>}, call \in 1..3 : AddCategoryFault(args, call)
    \/ \E call \in 1..2 : RemoveCategoryFault(<<wA>>, call)
    \/ \E call \in 1..2 : EditCategoryFault(<<wA>>, <<wC>>, call)

SpecFaults == Init /\ [][NextFaults]_vars

(***************************************************************************)
(* SpecSelect: category buttons and expense messages, with the calls of    *)
(* track_expense that can raise: the worksheet calls of write_to_sheet and *)
(* the reply_text that confirms the expense.                               *)
(***************************************************************************)
\* track_expense when reply_text of line 332 raises (the network fails, the
\* request times out): the row is written, `except Exception` is entered
\* and line 333 is not run
TrackExpenseReplyFault(message_text) ==
    LET category == current_category
        parts == Split(message_text, divider_symbol)
    IN  /\ Len(parts) = 2
        /\ ParseFloat(Strip(parts[2])).ok
        /\ Len(sheet) < MaxRows
        /\ sheet' = WriteToSheet(sheet, today, Strip(parts[1]),
                                 ParseFloat(Strip(parts[2])).val, category)
        /\ UNCHANGED <<divider_symbol, current_category, today, tasks>>
        /\ last' = [NoLast EXCEPT !.op = "track", !.name = message_text,
                        !.category = category, !.new = Strip(parts[1]),
                        !.reply_fault = TRUE, !.reply = "error, try again"]

SelectMessages == {CoffeeMessage, BadPriceMessage, TwoDividerMessage}

NextSelect ==
    \/ \E args \in {<<wA>>, <<wB>>} : AddCategory(args)
    \/ \E name \in ButtonsOf(sheet, {wA, wB}) : SetCategoryCallback(name)
    \/ \E text \in SelectMessages : TrackExpense(text)
    \/ \E text \in SelectMessages, call \in 1..2 : TrackExpenseFault(text, call)
    \/ \E text \in SelectMessages : TrackExpenseReplyFault(text)

SpecSelect == Init /\ [][NextSelect]_vars

(***************************************************************************)
(* SpecConcurrent: the handlers as coroutines of one event loop, a step    *)
(* for every call of the worksheet.  A coroutine gives up the loop at an   *)
(* await and nowhere else; the calls of gspread are not awaited.  Another  *)
(* handler may start whenever the loop is free, which covers an            *)
(* Application that handles updates concurrently as well as the default    *)
(* (one update at a time).                                                 *)
(***************************************************************************)
\* StoreCallYields for a worksheet client whose calls are awaited
StoreCallAwaited == TRUE

\* does a call of the worksheet give up the event loop
StoreCallYields == FALSE

\* the coroutine can run its next statement
CanGoOn(k) == tasks.running = k \/ (StoreCallYields /\ tasks.running = 0)

AfterStoreCall(k) == IF StoreCallYields THEN 0 ELSE k

\* the column the handler reads before it writes
ColumnOf(op) == IF op = "track" THEN 1 ELSE CategoryCol

\* the name the handler looks for
NameOf(task) == IF task.op = "edit" THEN task.args[1] ELSE Join(task.args, Space)

\* the event loop starts the handler of an update
HandlerStart(k, op, args) ==
    /\ tasks.running = 0
    /\ tasks.inv[k].pc = "idle"
    /\ tasks' = [running |-> k,
                 inv |-> [tasks.inv EXCEPT ![k] = [IdleTask EXCEPT !.pc = "read", !.op = op,
                                                                  !.args = args]]]
    /\ UNCHANGED <<sheet, divider_symbol, current_category, today, last>>

\* sheet.col_values: lines 150, 165, 189 and 69
StoreRead(k) ==
    LET task == tasks.inv[k]
        snap == ColValues(sheet, ColumnOf(task.op))
        stops == \/ task.op = "add" /\ CategoryExists(NameOf(task), snap)
                 \/ task.op \in {"remove", "edit"} /\ FirstCellWith(NameOf(task), snap) = 0
        reply == IF task.op = "add" THEN "exists" ELSE "not found"
    IN  /\ task.pc = "read"
        /\ CanGoOn(k)
        /\ tasks' = IF stops
                     THEN [running |-> 0,
                           inv |-> [tasks.inv EXCEPT ![k] = [task EXCEPT !.pc = "reply",
                                                                      !.snap = snap,
                                                                      !.reply = reply]]]
                     ELSE [running |-> AfterStoreCall(k),
                           inv |-> [tasks.inv EXCEPT ![k] =
                                       [task EXCEPT !.pc = IF task.op = "add" THEN "read2"
                                                                              ELSE "write",
                                                    !.snap = snap]]]
        /\ UNCHANGED <<sheet, divider_symbol, current_category, today, last>>

\* add_category reads the column again: line 155
StoreRead2(k) ==
    LET task == tasks.inv[k]
    IN  /\ task.pc = "read2"
        /\ CanGoOn(k)
        /\ tasks' = [running |-> AfterStoreCall(k),
                     inv |-> [tasks.inv EXCEPT ![k] =
                                 [task EXCEPT !.pc = "write",
                                              !.snap = ColValues(sheet, CategoryCol)]]]
        /\ UNCHANGED <<sheet, divider_symbol, current_category, today, last>>

\* the worksheet after the write the handler makes from the column it has read
Written(sh, task, now, category) ==
    LET name == NameOf(task)
        i == FirstCellWith(name, task.snap)
    IN  CASE task.op = "add" ->
                 UpdateCell(sh, CountNonEmpty(task.snap) + 1, CategoryCol, name)
          [] task.op = "remove" ->
                 UpdateCell(sh, i, CategoryCol, RemovedCell(task.snap[i], name))
          [] task.op = "edit" ->
                 UpdateCell(sh, i, CategoryCol,
                            EditedCell(task.snap[i], name, Join(Tail(task.args), Space)))
          [] OTHER ->
                 InsertRow(sh, <<FormatDate(now), TimeText, Coffee, CellOfFloat(1000),
                                 IF category = None THEN Empty ELSE category>>,
                           CountNonEmpty(task.snap) + 1)

\* sheet.update_cell, sheet.insert_row: lines 156, 173, 197 and 71; the
\* handler then awaits reply_text
StoreWrite(k) ==
    LET task == tasks.inv[k]
        reply == CASE task.op = "add" -> "added"
                   [] task.op = "remove" -> "removed"
                   [] task.op = "edit" -> "updated"
                   [] OTHER -> "tracked"
    IN  /\ task.pc = "write"
        /\ CanGoOn(k)
        /\ Len(Written(sheet, task, today, current_category)) <= MaxRows
        /\ sheet' = Written(sheet, task, today, current_category)
        /\ tasks' = [running |-> 0,
                     inv |-> [tasks.inv EXCEPT ![k] = [task EXCEPT !.pc = "reply",
                                                                !.reply = reply]]]
        /\ UNCHANGED <<divider_symbol, current_category, today, last>>

\* reply_text has returned: the handler runs to its end
HandlerEnd(k) ==
    LET task == tasks.inv[k]
    IN  /\ task.pc = "reply"
        /\ tasks.running = 0
        /\ tasks' = [tasks EXCEPT !.inv[k] = IdleTask]
        /\ current_category' = IF task.reply = "tracked" THEN None ELSE current_category
        /\ last' = [NoLast EXCEPT !.op = task.op, !.args = task.args,
                                   !.name = NameOf(task), !.reply = task.reply]
        /\ UNCHANGED <<sheet, divider_symbol, today>>

\* the updates that arrive: /addcat A, /addcat B, /removecat A, /editcat A C
\* and the message 'Coffee$10.0'
Updates ==
    {[op |-> "add", args |-> <<wA>>], [op |-> "add", args |-> <<wB>>],
     [op |-> "remove", args |-> <<wA>>], [op |-> "edit", args |-> <<wA, wC>>],
     [op |-> "track", args |-> <<CoffeeMessage>>]}

NextConcurrent ==
    \/ \E k \in Tasks, u \in Updates : HandlerStart(k, u.op, u.args)
    \/ \E k \in Tasks : StoreRead(k)
    \/ \E k \in Tasks : StoreRead2(k)
    \/ \E k \in Tasks : StoreWrite(k)
    \/ \E k \in Tasks : HandlerEnd(k)

SpecConcurrent == Init /\ [][NextConcurrent]_vars

(***************************************************************************)
(* SpecSummary: get_spending_summary on worksheets of every content.  The  *)
(* worksheet is a spreadsheet its owner can edit, so the first row is a    *)
(* header or an expense and the rows below are any of SampleRows.          *)
(***************************************************************************)
MaxDataRows == 2
MaxTop == 3

Text(date, item, price, category) == <<date, TimeText, item, price, category>>

Jan28 == <<"2", "0", "2", "4", "-", "0", "1", "-", "2", "8">>
Jan29 == <<"2", "0", "2", "4", "-", "0", "1", "-", "2", "9">>
Jan31 == <<"2", "0", "2", "4", "-", "0", "1", "-", "3", "1">>
Feb01 == <<"2", "0", "2", "4", "-", "0", "2", "-", "0", "1">>
DottedDate == <<"3", "1", ".", "0", "1", ".", "2", "0", "2", "4">>

HeaderRow ==
    <<<<"D", "a", "t", "e">>, <<"T", "i", "m", "e">>, <<"I", "t", "e", "m">>,
      <<"P", "r", "i", "c", "e">>, <<"C", "a", "t">>>>

\* a Wednesday row of two categories, a row of no category, a row of the
\* Thursday, a Monday row of negative price, a row of the Sunday before, a
\* row whose price is no number and a row whose date is not %Y-%m-%d
SampleRows ==
    {Text(Jan31, <<"w">>, <<"5">>, <<"A", ",", " ", "b">>),
     Text(Jan31, <<"x">>, <<"2", "0">>, Empty),
     Text(Feb01, <<"y">>, <<"2", "0">>, <<"a">>),
     Text(Jan29, <<"z">>, <<"-", "5">>, <<"A">>),
     Text(Jan28, <<"v">>, <<"3">>, <<"b">>),
     Text(Jan31, <<"u">>, <<"a", "b", "c">>, <<"A">>),
     Text(DottedDate, <<"t">>, <<"5">>, <<"A">>)}

FirstRows == {HeaderRow, Text(Jan31, <<"x">>, <<"2", "0">>, Empty)}

RECURSIVE RowLists(_)
RowLists(n) ==
    IF n = 0 THEN {<<>>}
    ELSE LET shorter == RowLists(n - 1)
         IN  shorter \cup {Append(l, r) : l \in {m \in shorter : Len(m) = n - 1},
                                         r \in SampleRows}

\* prices 5, 20, 20, 3 in row order, all of today
RankingSheet ==
    <<HeaderRow,
      Text(Jan31, <<"w">>, <<"5">>, <<"a">>),
      Text(Jan31, <<"x">>, <<"2", "0">>, <<"a">>),
      Text(Jan31, <<"y">>, <<"2", "0">>, <<"a">>),
      Text(Jan31, <<"z">>, <<"3">>, <<"a">>)>>

SnapshotSheets ==
    {<<>>, RankingSheet}
        \cup {<<first>> \o rows : first \in FirstRows, rows \in RowLists(MaxDataRows)}

SummaryDays == {StartDate, NextDay(StartDate)}

\* context.args of /day, /week and /month
SummaryArgLists == {<<>>, <<wa>>, <<wB>>}

InitSummary ==
    /\ sheet \in SnapshotSheets
    /\ divider_symbol = Dollar
    /\ current_category = None
    /\ today \in SummaryDays
    /\ last = NoLast
    /\ tasks = NoTasks

NextSummary ==
    \/ \E period \in Periods, args \in SummaryArgLists : SpendingCommand(period, args)
    \/ \E top_amount \in 0..MaxTop : GetSpendingSummaryTop("month", top_amount)

SpecSummary == InitSummary /\ [][NextSummary]_vars

(***************************************************************************)
(* Definitions the claims are stated with.                                 *)
(***************************************************************************)
\* the cell at (row, col) of a worksheet; cells below the last row are empty
CellAt(sh, row, col) == IF row <= Len(sh) THEN sh[row][col] ELSE Empty

\* the rows whose category cell is not empty
CategoryRows(sh) == {i \in 1..Len(sh) : sh[i][CategoryCol] # Empty}

\* the trimmed comma-split tokens of every non-empty category cell
Tokens(sh) == UNION {Range(CategoriesInCell(sh[i][CategoryCol])) : i \in CategoryRows(sh)}

\* name equals, ignoring case, a token of a non-empty category cell
IsTokenIgnoringCase(name, sh) == \E t \in Tokens(sh) : ToLower(t) = ToLower(name)

\* the first row from the top whose token list holds name, 0 when none does
FirstRowWith(name, sh) ==
    LET hits == {i \in CategoryRows(sh) : name \in Range(CategoriesInCell(sh[i][CategoryCol]))}
    IN  IF hits = {} THEN 0 ELSE CHOOSE i \in hits : \A j \in hits : i <= j

\* every cell but (row, CategoryCol) is the same in sh and in after
OtherCellsUnchanged(sh, after, row) ==
    \A i \in 1..(IF Len(sh) > Len(after) THEN Len(sh) ELSE Len(after)) :
        \A c \in 1..NCols :
            (i # row \/ c # CategoryCol) => CellAt(after, i, c) = CellAt(sh, i, c)

\* the registry as a set of names: the abstract operations
AbsAdd(set, name) ==
    IF \E n \in set : ToLower(n) = ToLower(name) THEN set ELSE set \cup {name}

AbsRemove(set, name) == set \ {name}

AbsRename(set, old, new) == IF old \in set THEN (set \ {old}) \cup {new} ELSE set

HasComma(s) == \E i \in 1..Len(s) : s[i] = ","

DayReport == GetSpendingSummary(sheet, today, divider_symbol, "day", None, 0)

Price1000Text == <<"1", "0", ".", "0", "0", "$">>

(***************************************************************************)
(* C1.  Round-trip: whatever the worksheet holds, when track_expense       *)
(* accepts 'Coffee$10.0' under the divider '$' and write_to_sheet appends  *)
(* the row, the day summary taken right after it (same worksheet, same     *)
(* date) has a line with 'Coffee' and '10.00$', and its total has grown by *)
(* that 10.00.                                                             *)
(***************************************************************************)
C1_RoundTrip ==
    [][(TrackExpense(CoffeeMessage) /\ last'.reply = "tracked" /\ divider_symbol = Dollar)
        => LET r == GetSpendingSummary(sheet', today', divider_symbol', "day", None, 0)
           IN  /\ r.kind = "summary"
               /\ \E k \in 1..Len(r.lines) :
                      r.lines[k].name = Coffee /\ r.lines[k].priceText = Price1000Text
               /\ r.total = DayReport.total + 1000]_vars

(***************************************************************************)
(* C2.  A successful add(name) writes name into the first cell after the   *)
(* last non-empty cell of the category column, and every category cell     *)
(* that was non-empty before the add holds the same value after it.        *)
(***************************************************************************)
C2_AddAppendsAtColumnEnd ==
    [][\A args \in ArgLists :
          (AddCategory(args) /\ last'.reply = "added")
          => /\ CellAt(sheet', Len(ColValues(sheet, CategoryCol)) + 1, CategoryCol)
                    = Join(args, Space)
             /\ \A i \in CategoryRows(sheet) :
                    CellAt(sheet', i, CategoryCol) = sheet[i][CategoryCol]]_vars

(***************************************************************************)
(* C3.  The category column refines a set of names.  With no expense row   *)
(* in the worksheet and names that hold no comma, each call moves the      *)
(* token set of the column as the abstract operation moves the set: add    *)
(* inserts the name unless a name equal to it ignoring case is present,    *)
(* remove deletes the name, rename replaces old by new.  (Starting from    *)
(* the empty column, this is the step of the refinement: the token set     *)
(* equals the abstract set after every sequence of calls.)                 *)
(***************************************************************************)
C3_ColumnRefinesSet ==
    [][(ColValues(sheet, 1) = <<>>
            /\ \A i \in CategoryRows(sheet) : ~HasComma(sheet[i][CategoryCol]))
        => /\ \A args \in ArgLists \ {<<>>} :
                  (AddCategory(args) /\ ~HasComma(Join(args, Space)))
                  => Tokens(sheet') = AbsAdd(Tokens(sheet), Join(args, Space))
           /\ \A args \in ArgLists \ {<<>>} :
                  (RemoveCategory(args) /\ ~HasComma(Join(args, Space)))
                  => Tokens(sheet') = AbsRemove(Tokens(sheet), Join(args, Space))
           /\ \A old \in {<<wA>>, <<wa>>}, new \in NewArgLists :
                  EditCategory(old, new)
                  => Tokens(sheet') = AbsRename(Tokens(sheet), Join(old, Space),
                                                Join(new, Space))]_vars

(***************************************************************************)
(* C4.  add(name) answers 'already exists' and writes nothing whenever     *)
(* name equals, ignoring case, a trimmed comma-split token of a non-empty  *)
(* cell of the category column.  last.args are the words of the command   *)
(* the step has run.                                                       *)
(***************************************************************************)
C4_AddRejectsDuplicate ==
    [][(/\ last'.op = "add"
        /\ last'.args # <<>>
        /\ AddCategory(last'.args)
        /\ IsTokenIgnoringCase(Join(last'.args, Space), sheet))
        => (last'.reply = "exists" /\ sheet' = sheet)]_vars

\* add was rejected for a name that differs in case from the token it meets
C4_Witness ==
    /\ last.op = "add"
    /\ last.reply = "exists"
    /\ last.name \notin Tokens(sheet)
    /\ IsTokenIgnoringCase(last.name, sheet)

(***************************************************************************)
(* C5.  remove(name), when some cell's token list holds name exactly,      *)
(* rewrites only the first such cell from the top: the cell becomes its    *)
(* remaining tokens joined with ', ', it no longer holds name, and every   *)
(* other cell of the worksheet is unchanged.                               *)
(***************************************************************************)
C5_RemoveRewritesFirstCell ==
    [][\A args \in ArgLists \ {<<>>} :
          LET name == Join(args, Space)
              row == FirstRowWith(name, sheet)
          IN  (RemoveCategory(args) /\ row # 0)
              => LET cats == CategoriesInCell(sheet[row][CategoryCol])
                     remaining == SelectSeq(cats, LAMBDA t : t # name)
                     after == CellAt(sheet', row, CategoryCol)
                 IN  /\ after = Join(remaining, CommaSpace)
                     /\ name \notin Range(CategoriesInCell(after))
                     /\ OtherCellsUnchanged(sheet, sheet', row)]_vars

(***************************************************************************)
(* C6.  remove(name) and rename(old, new), called with a name that is an   *)
(* exact token of no cell, answer 'not found' and write nothing.  The name *)
(* of rename is old_category_name, the first word after the command.       *)
(***************************************************************************)
C6_NotFoundWritesNothing ==
    [][/\ (/\ last'.op = "remove"
           /\ last'.args # <<>>
           /\ RemoveCategory(last'.args)
           /\ Join(last'.args, Space) \notin Tokens(sheet))
          => (last'.reply = "not found" /\ sheet' = sheet)
       /\ (/\ last'.op = "edit"
           /\ Len(last'.args) >= 2
           /\ EditCategory(<<last'.args[1]>>, Tail(last'.args))
           /\ last'.args[1] \notin Tokens(sheet))
          => (last'.reply = "not found" /\ sheet' = sheet)]_vars

\* a name was not found although a token equal to it ignoring case is there
C6_Witness ==
    /\ last.op \in {"remove", "edit"}
    /\ last.reply = "not found"
    /\ last.name \notin Tokens(sheet)
    /\ IsTokenIgnoringCase(last.name, sheet)

(***************************************************************************)
(* C7.  rename(old, new), for every category name old of the registry,     *)
(* names of more than one word included, puts new in the place of old in   *)
(* the token list of the first cell that holds old, keeps the other tokens *)
(* and their order, and leaves every other cell unchanged.                 *)
(***************************************************************************)
C7_RenameSubstitutes ==
    [][\A old \in ArgLists \ {<<>>}, new \in NewArgLists :
          LET old_name == Join(old, Space)
              new_name == Join(new, Space)
              row == FirstRowWith(old_name, sheet)
          IN  (EditCategory(old, new) /\ row # 0)
              => LET cats == CategoriesInCell(sheet[row][CategoryCol])
                     renamed == [k \in 1..Len(cats) |->
                                    IF cats[k] = old_name THEN new_name ELSE cats[k]]
                 IN  /\ CellAt(sheet', row, CategoryCol) = Join(renamed, CommaSpace)
                     /\ OtherCellsUnchanged(sheet, sheet', row)]_vars

(***************************************************************************)
(* C8.  Registry uniqueness: in every state reached from the empty         *)
(* worksheet by add, remove, rename and expense appends, each category     *)
(* name is a token of at most one cell of the category column.             *)
(***************************************************************************)
C8_NameInOneCell ==
    \A name \in Tokens(sheet) :
        Cardinality({i \in CategoryRows(sheet) :
                        name \in Range(CategoriesInCell(sheet[i][CategoryCol]))}) <= 1

(***************************************************************************)
(* C9.  Expense records are never updated or deleted: every row appended   *)
(* by write_to_sheet (the rows with a date in column 1) is in the          *)
(* worksheet with the same five fields after any later handler step.       *)
(***************************************************************************)
ExpenseRows(sh) == {i \in 1..Len(sh) : sh[i][1] # Empty}

C9_ExpenseRowsKept ==
    [][\A i \in ExpenseRows(sheet) :
          Cardinality({j \in ExpenseRows(sheet') : sheet'[j] = sheet[i]})
              >= Cardinality({j \in ExpenseRows(sheet) : sheet[j] = sheet[i]})]_vars

(***************************************************************************)
(* C10.  For every worksheet, the day summary with no category has a total *)
(* equal to the sum of the prices of all well-formed rows whose date is    *)
(* today, and lists exactly those rows.                                    *)
(***************************************************************************)
WellFormedToday(row, now) ==
    /\ ParseDate(Strip(row[1])).ok
    /\ ParseFloat(Strip(row[4])).ok
    /\ ParseDate(Strip(row[1])).date = now

RECURSIVE SumOfRows(_, _)
SumOfRows(sh, rows) ==
    IF rows = {} THEN 0
    ELSE LET i == CHOOSE j \in rows : TRUE
         IN  ParseFloat(Strip(sh[i][4])).val + SumOfRows(sh, rows \ {i})

C10_DayTotal ==
    LET todays == {i \in 1..Len(sheet) : WellFormedToday(sheet[i], today)}
    IN  /\ DayReport.total = SumOfRows(sheet, todays)
        /\ {DayReport.lines[k].row : k \in 1..Len(DayReport.lines)} = todays

(***************************************************************************)
(* Definitions for the claims on get_spending_summary.  The records of a   *)
(* worksheet are those of the rows the loop reads, the rows below the      *)
(* first one (raw_data[1:]).                                               *)
(***************************************************************************)
DataRows(sh) == 2..Len(sh)

\* the row has five fields, a date and a price
IsRecord(sh, i) ==
    /\ Len(GetAllValues(sh)[i]) = NCols
    /\ ParseDate(Strip(sh[i][1])).ok
    /\ ParseFloat(Strip(sh[i][4])).ok

RecordDate(sh, i) == ParseDate(Strip(sh[i][1])).date

RecordPrice(sh, i) == ParseFloat(Strip(sh[i][4])).val

\* the requested category equals, ignoring case, a trimmed token of the field
HasToken(sh, i, category) ==
    /\ sh[i][CategoryCol] # Empty
    /\ \E t \in Range(CategoriesInCell(sh[i][CategoryCol])) : ToLower(t) = ToLower(category)

\* the sheet rows of the lines of a report
ListedRows(report) == {report.lines[k].row : k \in 1..Len(report.lines)}

\* the last step was a summary call that lists every match
FullReport == last.reply = "report" /\ last.top = <<>>

AB == <<"A", ",", " ", "b">>

(***************************************************************************)
(* C11.  With a category argument, the summary lists a record if and only  *)
(* if it is in the period and the requested category equals, ignoring      *)
(* case, a trimmed comma-split token of its category field; a record whose *)
(* category field is empty is never listed.                                *)
(***************************************************************************)
C11_CategoryFilter ==
    (FullReport /\ last.category # None)
    => ListedRows(last.report)
           = {i \in DataRows(sheet) :
                 /\ IsRecord(sheet, i)
                 /\ InPeriod(last.op, RecordDate(sheet, i), today)
                 /\ HasToken(sheet, i, last.category)}

\* 'B' was asked for: a row of 'A, b' is listed, a row of today with no
\* category is not
C11_Witness ==
    /\ FullReport
    /\ last.category = wB
    /\ \E i \in ListedRows(last.report) : sheet[i][CategoryCol] = AB
    /\ \E j \in DataRows(sheet) \ ListedRows(last.report) :
           /\ IsRecord(sheet, j)
           /\ InPeriod(last.op, RecordDate(sheet, j), today)
           /\ sheet[j][CategoryCol] = Empty

(***************************************************************************)
(* C12.  A row with fewer than five fields, with a date that does not      *)
(* parse or with a price that does not parse is skipped and the loop goes  *)
(* on: the row is not listed, the total is the sum of the listed rows, and *)
(* every record below it that is in the period (and of the category asked  *)
(* for) is listed.                                                         *)
(***************************************************************************)
C12_MalformedRowsSkipped ==
    FullReport
    => /\ \A i \in DataRows(sheet) : ~IsRecord(sheet, i) => i \notin ListedRows(last.report)
       /\ last.report.total = SumOfRows(sheet, ListedRows(last.report))
       /\ \A i \in DataRows(sheet), j \in DataRows(sheet) :
              (/\ ~IsRecord(sheet, i)
               /\ j > i
               /\ IsRecord(sheet, j)
               /\ InPeriod(last.op, RecordDate(sheet, j), today)
               /\ (last.category = None \/ HasToken(sheet, j, last.category)))
              => j \in ListedRows(last.report)

\* a row whose price is 'abc' lies above a listed row
C12_Witness ==
    /\ FullReport
    /\ \E i \in DataRows(sheet), j \in ListedRows(last.report) :
           /\ j > i
           /\ ParseDate(Strip(sheet[i][1])).ok
           /\ ~ParseFloat(Strip(sheet[i][4])).ok

(***************************************************************************)
(* C13.  Prices are non-negative: whatever the worksheet holds, every      *)
(* record a summary counts has a price >= 0 and the reported total is      *)
(* >= 0.                                                                   *)
(***************************************************************************)
C13_PricesNonNegative ==
    last.reply = "report"
    => /\ \A k \in 1..Len(last.report.lines) : last.report.lines[k].price >= 0
       /\ last.report.total >= 0

(***************************************************************************)
(* C14.  The lines of a summary are in price-descending order and lines of *)
(* equal price are in the order of their rows; on the worksheet with the   *)
(* prices 5, 20, 20, 3 (rows 2 to 5, under the header), when the four are  *)
(* listed, the lines are the second, the third, the first and the fourth   *)
(* of these rows.                                                          *)
(***************************************************************************)
C14_StablePriceOrder ==
    last.reply = "report"
    => /\ \A k \in 1..(Len(last.report.lines) - 1) :
              \/ last.report.lines[k].price > last.report.lines[k + 1].price
              \/ /\ last.report.lines[k].price = last.report.lines[k + 1].price
                 /\ last.report.lines[k].row < last.report.lines[k + 1].row
       /\ (sheet = RankingSheet /\ ListedRows(last.report) = 2..5)
              => [k \in 1..Len(last.report.lines) |-> last.report.lines[k].row]
                     = <<3, 4, 2, 5>>

\* the report of the prices 5, 20, 20, 3
C14_Witness ==
    /\ sheet = RankingSheet
    /\ FullReport
    /\ last.category = None
    /\ Len(last.report.lines) = 4

(***************************************************************************)
(* C15.  For every top_amount >= 0 that is passed and every non-empty      *)
(* match list, the summary lists exactly min(top_amount, match count)      *)
(* records, and they are the first ones of the price-descending order.     *)
(***************************************************************************)
Matches(sh, period, now) ==
    {i \in DataRows(sh) : IsRecord(sh, i) /\ InPeriod(period, RecordDate(sh, i), now)}

Min(a, b) == IF a <= b THEN a ELSE b

C15_TopN ==
    (last.reply = "report" /\ last.top # <<>> /\ Matches(sheet, last.op, today) # {})
    => /\ Len(last.report.lines)
              = Min(last.top[1], Cardinality(Matches(sheet, last.op, today)))
       /\ ListedRows(last.report) \subseteq Matches(sheet, last.op, today)
       /\ \A i \in ListedRows(last.report),
             j \in Matches(sheet, last.op, today) \ ListedRows(last.report) :
              \/ RecordPrice(sheet, i) > RecordPrice(sheet, j)
              \/ RecordPrice(sheet, i) = RecordPrice(sheet, j) /\ i < j

(***************************************************************************)
(* C16.  For the period 'week' a record is listed if and only if its date  *)
(* lies between the Monday of the week of today and today, both included;  *)
(* a later date of the same week is not in the period.  The Monday is the  *)
(* one day among today and the six days before it that is as many weeks    *)
(* away from Monday 2024-01-01 (ordinal 738886).                           *)
(***************************************************************************)
MondayOrdinal == 738886

MondayOfWeek(now) ==
    CHOOSE o \in (ToOrdinal(now) - 6)..ToOrdinal(now) : (o - MondayOrdinal) % 7 = 0

C16_WeekPeriod ==
    (FullReport /\ last.op = "week" /\ last.category = None)
    => ListedRows(last.report)
           = {i \in DataRows(sheet) :
                 /\ IsRecord(sheet, i)
                 /\ MondayOfWeek(today) <= ToOrdinal(RecordDate(sheet, i))
                 /\ ToOrdinal(RecordDate(sheet, i)) <= ToOrdinal(today)}

\* on a Wednesday the row of the Monday is listed, the row of the Thursday
\* is not
C16_Witness ==
    /\ FullReport
    /\ last.op = "week"
    /\ last.category = None
    /\ Weekday(today) = 2
    /\ \E i \in ListedRows(last.report) : sheet[i][1] = Jan29
    /\ \E j \in DataRows(sheet) \ ListedRows(last.report) : sheet[j][1] = Feb01

(***************************************************************************)
(* C17, as it was claimed.  Two invocations of the handlers that run in    *)
(* the bot process can interleave their reads and writes of the worksheet: *)
(* while one invocation has read the column and has not yet written, the   *)
(* other one can take a step, so that the first one writes from a          *)
(* snapshot that is older than the other's write.                          *)
(***************************************************************************)
HoldsSnapshot(k) == tasks.inv[k].pc \in {"read2", "write"}

CanStep(k) ==
    \/ tasks.inv[k].pc = "idle" /\ tasks.running = 0
    \/ tasks.inv[k].pc \in {"read", "read2", "write"} /\ CanGoOn(k)
    \/ tasks.inv[k].pc = "reply" /\ tasks.running = 0

C17_ReadsAndWritesInterleave ==
    \A k \in Tasks : HoldsSnapshot(k) => \E j \in Tasks \ {k} : CanStep(j)

(***************************************************************************)
(* C17, amended.  The invocations that run in the bot process do not       *)
(* interleave their reads and writes of the worksheet: an invocation that  *)
(* has read the column and has not yet written is the only one that runs,  *)
(* and the snapshot it writes from is the column as it is, so no write of  *)
(* another invocation falls between its read and its write.                *)
(***************************************************************************)
C17_WritesFromFreshSnapshot ==
    \A k \in Tasks :
        HoldsSnapshot(k)
        => /\ tasks.running = k
           /\ tasks.inv[k].snap = ColValues(sheet, ColumnOf(tasks.inv[k].op))
           /\ \A j \in Tasks \ {k} : ~HoldsSnapshot(j)

\* an invocation is about to write while the other one, which has written
\* a name the first one has read, is waiting for reply_text to return
C17_Witness ==
    \E k \in Tasks, j \in Tasks :
        /\ tasks.inv[k].pc = "write"
        /\ tasks.inv[k].op = "add"
        /\ tasks.inv[j].pc = "reply"
        /\ tasks.inv[j].reply = "added"
        /\ \E i \in 1..Len(tasks.inv[k].snap) : tasks.inv[k].snap[i] = NameOf(tasks.inv[j])

(***************************************************************************)
(* C18.  Every failure path yields a text: when a read or a write of the   *)
(* worksheet raises inside a summary, an expense append, an add, a remove  *)
(* or a rename, the caller gets a failure text and no confirmation of      *)
(* success, and the event loop is free for the next request.               *)
(***************************************************************************)
FailureText ==
    \/ last.reply \in {"an error occurred", "error, try again"}
    \/ last.reply = "report" /\ last.report.kind = "error fetching data"

SuccessText ==
    \/ last.reply \in {"added", "removed", "updated", "tracked"}
    \/ last.reply = "report" /\ last.report.kind \in {"summary", "no spendings", "no data"}

C18_FailureYieldsText ==
    last.fault # 0
    => /\ FailureText
       /\ ~SuccessText
       /\ tasks.running = 0

\* update_cell raised inside add_category, and a row tracked before is in
\* the worksheet
C18_Witness ==
    /\ last.op = "add"
    /\ last.fault = 3
    /\ last.reply = "an error occurred"
    /\ Len(sheet) > 0

(***************************************************************************)
(* C19.  Authorization gates every operation: an update of a sender who is *)
(* not in the allow-list is answered 'Unauthorized access', and its        *)
(* handler reads nothing of the worksheet, writes nothing, changes nothing *)
(* of the bot's state and puts no name of the worksheet in its reply.      *)
(***************************************************************************)
C19_AuthorizationGatesAll ==
    last.user_id \notin ALLOWED_USER_IDS
    => /\ last.reply = "unauthorized"
       /\ last.buttons = {}

(***************************************************************************)
(* C20.  The divider symbol is '$' at the start and one character long in  *)
(* every state; /setdivider with no argument, or with an argument that is  *)
(* not one character long, leaves it as it is.                             *)
(***************************************************************************)
C20_DividerOneCharacter ==
    /\ divider_symbol = Dollar
    /\ [](Len(divider_symbol) = 1)
    /\ [][(/\ last'.op = "setdivider"
            /\ (last'.args = <<>> \/ Len(last'.args[1]) # 1))
           => divider_symbol' = divider_symbol]_vars

\* '##' was turned down while the divider was '#'
C20_Witness ==
    /\ last.op = "setdivider"
    /\ last.reply = "single character"
    /\ divider_symbol = Hash

(***************************************************************************)
(* C21.  A category selected with a button labels at most one expense row. *)
(* As a property of every step of track_expense, the failing ones          *)
(* included: a step that appends a row carrying the selected category      *)
(* leaves no category selected, so that no later row carries it unless a   *)
(* button is pressed again (current_category is set by                     *)
(* set_category_callback only); a step that rejects the message appends    *)
(* nothing and keeps the selection.                                        *)
(***************************************************************************)
C21_SelectionLabelsOneRow ==
    [][/\ (last'.op = "track" /\ sheet' # sheet /\ current_category # None)
          => current_category' = None
       /\ (last'.op = "track" /\ last'.reply = "incorrect format")
          => (sheet' = sheet /\ current_category' = current_category)]_vars

====
